---- MODULE Spec2Model ----
(***************************************************************************)
(* md_to_html.py: headers, bold, italics, lists, paragraphs and html.      *)
(* A string is a sequence of one-character strings.  Every re.sub call is  *)
(* modelled by a left-to-right scan that tries the pattern at each         *)
(* position with the greedy/backtracking choice the re module makes,       *)
(* replaces a match and resumes right after it.                            *)
(***************************************************************************)
EXTENDS Integers, Sequences, FiniteSets, TLC

VARIABLES entry, corpus, text, pc, ul_wrapped, ul_finished, ol_wrapped

vars == <<entry, corpus, text, pc, ul_wrapped, ul_finished, ol_wrapped>>

(***************************************************************************)
(* Character classes and string helpers of the patterns.                   *)
(***************************************************************************)
NL == "\n"

\* [ \t] of the headers pattern
HSpace == {" ", "\t"}

\* \s of the paragraphs pattern: [ \t\n\r\f\v]
Space == {" ", "\t", "\n", "\r", "\f"}

\* \d of the ordered-list pattern
Digit == {"0", "1", "2", "3", "4", "5", "6", "7", "8", "9"}

\* str(i) of the f-strings of headers, for one decimal digit
DecChar(i) == <<"0", "1", "2", "3", "4", "5", "6", "7", "8", "9">>[i + 1]

Max(S) == CHOOSE x \in S : \A y \in S : y <= x

Min(S) == CHOOSE x \in S : \A y \in S : x <= y

\* the literal lit stands in s at position p
StartsWith(s, p, lit) ==
  /\ p >= 1
  /\ p + Len(lit) - 1 <= Len(s)
  /\ \A k \in 1..Len(lit) : s[p + k - 1] = lit[k]

\* index of the last character [^\n]* (or .*) can take from position p on
LineEnd(s, p) ==
  LET nls == {j \in p..Len(s) : s[j] = NL}
  IN IF nls = {} THEN Len(s) ELSE Min(nls) - 1

\* index of the last character of the longest run of C-characters from p on
RunEnd(s, p, C) ==
  LET stops == {j \in p..Len(s) : s[j] \notin C}
  IN IF stops = {} THEN Len(s) ELSE Min(stops) - 1

NoMatch == [found |-> FALSE, end |-> 0, repl |-> <<>>]

Match(e, r) == [found |-> TRUE, end |-> e, repl |-> r]

(***************************************************************************)
(* headers                                                                 *)
(***************************************************************************)
HOpen(i) == <<"<", "h", DecChar(i), ">">>

HClose(i) == <<"<", "/", "h", DecChar(i), ">">>

\* ({"#"*i})[ \t]+([^\n]+) with the hashes at h and group 1 already matched
\* as g1: [ \t]+ takes the longest run that still leaves [^\n]+ a character.
HeaderAt(i, s, g1, h) ==
  LET q  == h + i
      e  == LineEnd(s, q)
      r  == RunEnd(s, q, HSpace)
      ws == {w \in 1..(r - q + 1) : q + w <= e}
  IN IF (\A k \in 0..(i - 1) : h + k <= Len(s) /\ s[h + k] = "#") /\ ws # {}
     THEN Match(e, g1 \o HOpen(i) \o SubSeq(s, q + Max(ws), e) \o HClose(i))
     ELSE NoMatch

\* (^|\n): ^ only at the start of the buffer, tried before \n
MatchHeader(i, s, p) ==
  IF p = 1 /\ HeaderAt(i, s, <<>>, 1).found THEN HeaderAt(i, s, <<>>, 1)
  ELSE IF s[p] = NL THEN HeaderAt(i, s, <<NL>>, p + 1)
  ELSE NoMatch

RECURSIVE SubHeader(_, _, _)
SubHeader(i, s, p) ==
  IF p > Len(s) THEN <<>>
  ELSE LET m == MatchHeader(i, s, p)
       IN IF m.found THEN m.repl \o SubHeader(i, s, m.end + 1)
          ELSE <<s[p]>> \o SubHeader(i, s, p + 1)

\* for i in range(top, 0, -1): corpus = re.sub(..., corpus)
RECURSIVE HeadersFrom(_, _)
HeadersFrom(i, s) ==
  IF i = 0 THEN s ELSE HeadersFrom(i - 1, SubHeader(i, s, 1))

headers_seven(c) == HeadersFrom(7, c)

headers(c) == HeadersFrom(6, c)

(***************************************************************************)
(* bold and italics                                                        *)
(***************************************************************************)
StrongOpen == <<"<", "s", "t", "r", "o", "n", "g", ">">>

StrongClose == <<"<", "/", "s", "t", "r", "o", "n", "g", ">">>

EmOpen == <<"<", "e", "m", ">">>

EmClose == <<"<", "/", "e", "m", ">">>

\* the lazy pattern \*\*([^\n]+?)\*\*
MatchBoldLazy(s, p) ==
  LET e  == LineEnd(s, p + 2)
      js == {j \in (p + 2)..(e - 2) : s[j + 1] = "*" /\ s[j + 2] = "*"}
  IN IF StartsWith(s, p, <<"*", "*">>) /\ js # {}
     THEN Match(Min(js) + 2,
                StrongOpen \o SubSeq(s, p + 2, Min(js)) \o StrongClose)
     ELSE NoMatch

\* \*\*([^\n]+)\*\* : the group ends at the last ** of the line
MatchBold(s, p) ==
  LET e  == LineEnd(s, p + 2)
      js == {j \in (p + 2)..(e - 2) : s[j + 1] = "*" /\ s[j + 2] = "*"}
  IN IF StartsWith(s, p, <<"*", "*">>) /\ js # {}
     THEN Match(Max(js) + 2,
                StrongOpen \o SubSeq(s, p + 2, Max(js)) \o StrongClose)
     ELSE NoMatch

RECURSIVE SubBold(_, _)
SubBold(s, p) ==
  IF p > Len(s) THEN <<>>
  ELSE LET m == MatchBold(s, p)
       IN IF m.found THEN m.repl \o SubBold(s, m.end + 1)
          ELSE <<s[p]>> \o SubBold(s, p + 1)

bold(c) == SubBold(c, 1)

\* \*([^\n]+)\* : the group ends before the last * of the line
MatchItalic(s, p) ==
  LET e  == LineEnd(s, p + 1)
      js == {j \in (p + 1)..(e - 1) : s[j + 1] = "*"}
  IN IF s[p] = "*" /\ js # {}
     THEN Match(Max(js) + 1, EmOpen \o SubSeq(s, p + 1, Max(js)) \o EmClose)
     ELSE NoMatch

RECURSIVE SubItalic(_, _)
SubItalic(s, p) ==
  IF p > Len(s) THEN <<>>
  ELSE LET m == MatchItalic(s, p)
       IN IF m.found THEN m.repl \o SubItalic(s, m.end + 1)
          ELSE <<s[p]>> \o SubItalic(s, p + 1)

italics(c) == SubItalic(c, 1)

(***************************************************************************)
(* lists                                                                   *)
(***************************************************************************)
UlOpen == <<"<", "u", "l", ">">>

UlClose == <<"<", "/", "u", "l", ">">>

OlOpen == <<"<", "o", "l", ">">>

OlClose == <<"<", "/", "o", "l", ">">>

LiOpen == <<"<", "l", "i", ">">>

LiClose == <<"<", "/", "l", "i", ">">>

\* (-|\+|\*) (.*) : found anywhere in a line, group 2 runs to the line's end
MatchUlItem(s, p) ==
  LET e == LineEnd(s, p + 2)
  IN IF s[p] \in {"-", "+", "*"} /\ p + 1 <= Len(s) /\ s[p + 1] = " "
     THEN Match(e, UlOpen \o LiOpen \o SubSeq(s, p + 2, e) \o LiClose \o UlClose)
     ELSE NoMatch

\* (\d+\.) (.*) : found anywhere in a line
MatchOlItem(s, p) ==
  LET r  == RunEnd(s, p, Digit)
      ds == {d \in p..r : StartsWith(s, d + 1, <<".", " ">>)}
      e  == LineEnd(s, Max(ds) + 3)
  IN IF s[p] \in Digit /\ ds # {}
     THEN Match(e, OlOpen \o LiOpen \o SubSeq(s, Max(ds) + 3, e)
                          \o LiClose \o OlClose)
     ELSE NoMatch

RECURSIVE SubUlItem(_, _)
SubUlItem(s, p) ==
  IF p > Len(s) THEN <<>>
  ELSE LET m == MatchUlItem(s, p)
       IN IF m.found THEN m.repl \o SubUlItem(s, m.end + 1)
          ELSE <<s[p]>> \o SubUlItem(s, p + 1)

RECURSIVE SubOlItem(_, _)
SubOlItem(s, p) ==
  IF p > Len(s) THEN <<>>
  ELSE LET m == MatchOlItem(s, p)
       IN IF m.found THEN m.repl \o SubOlItem(s, m.end + 1)
          ELSE <<s[p]>> \o SubOlItem(s, p + 1)

\* the replacement '\n' of both merge substitutions, without the newline
MergeReplEmpty == <<>>

\* the replacement '\n' of both merge substitutions: group 1 is not put back
MergeRepl == <<NL>>

\* </ul>\n(.*)<ul> (or ol): closing tag, newline, then the group runs to the
\* last opening tag of the next line
MatchMerge(s, p, close, open) ==
  LET q  == p + Len(close) + 1
      e  == LineEnd(s, q)
      js == {j \in (q - 1)..(e - Len(open)) : StartsWith(s, j + 1, open)}
  IN IF StartsWith(s, p, close \o <<NL>>) /\ js # {}
     THEN [found |-> TRUE, end |-> Max(js) + Len(open), repl |-> MergeRepl,
           group |-> SubSeq(s, q, Max(js))]
     ELSE [found |-> FALSE, end |-> 0, repl |-> <<>>, group |-> <<>>]

RECURSIVE SubMerge(_, _, _, _)
SubMerge(s, p, close, open) ==
  IF p > Len(s) THEN <<>>
  ELSE LET m == MatchMerge(s, p, close, open)
       IN IF m.found THEN m.repl \o SubMerge(s, m.end + 1, close, open)
          ELSE <<s[p]>> \o SubMerge(s, p + 1, close, open)

\* the four assignments of lists, in order
UlWrapped(c) == SubUlItem(c, 1)

UlFinished(c) == SubMerge(UlWrapped(c), 1, UlClose, UlOpen)

OlWrapped(c) == SubOlItem(UlFinished(c), 1)

lists(c) == SubMerge(OlWrapped(c), 1, OlClose, OlOpen)

(***************************************************************************)
(* paragraphs                                                              *)
(***************************************************************************)
POpen == <<"<", "p", ">">>

PClose == <<"<", "/", "p", ">">>

ParaBoundary == PClose \o <<NL>> \o POpen

\* the lazy pattern \n\s*?\n
MatchParaLazy(s, p) ==
  LET r  == RunEnd(s, p + 1, Space)
      js == {j \in (p + 1)..r : s[j] = NL}
  IN IF s[p] = NL /\ js # {} THEN Match(Min(js), ParaBoundary) ELSE NoMatch

\* \n\s*\n : \s* runs over every following whitespace character, newlines
\* included, and gives back up to the last newline of the run
MatchPara(s, p) ==
  LET r  == RunEnd(s, p + 1, Space)
      js == {j \in (p + 1)..r : s[j] = NL}
  IN IF s[p] = NL /\ js # {} THEN Match(Max(js), ParaBoundary) ELSE NoMatch

RECURSIVE SubPara(_, _)
SubPara(s, p) ==
  IF p > Len(s) THEN <<>>
  ELSE LET m == MatchPara(s, p)
       IN IF m.found THEN m.repl \o SubPara(s, m.end + 1)
          ELSE <<s[p]>> \o SubPara(s, p + 1)

paragraphs(c) == POpen \o SubPara(c, 1) \o PClose

(***************************************************************************)
(* html                                                                    *)
(***************************************************************************)
ArticleOpen == <<"<", "a", "r", "t", "i", "c", "l", "e", ">">>

ArticleClose == <<"<", "/", "a", "r", "t", "i", "c", "l", "e", ">">>

html(c) == ArticleOpen \o paragraphs(lists(italics(bold(headers(c))))) \o ArticleClose

(***************************************************************************)
(* Inputs: the strings the functions are called with.                      *)
(***************************************************************************)
MaxHashes == 7
MaxGap == 2
MaxTail == 1
MaxParaLen == 6
MaxPlainLen == 4
MaxStars == 3
MaxInner == 2
MaxListLines == 3
MaxStageLines == 3

\* every string over the alphabet A of length at most n
Strs(A, n) == UNION {[1..k -> A] : k \in 0..n}

Repeat(c, k) == [j \in 1..k |-> c]

\* the lines ls joined by single newlines
RECURSIVE JoinLines(_)
JoinLines(ls) ==
  IF Len(ls) = 0 THEN <<>>
  ELSE IF Len(ls) = 1 THEN ls[1]
  ELSE ls[1] \o <<NL>> \o JoinLines(Tail(ls))

\* the lines of s: the pieces between its newlines
RECURSIVE Split(_)
Split(s) ==
  LET e == LineEnd(s, 1)
  IN IF e = Len(s) THEN <<s>>
     ELSE <<SubSeq(s, 1, e)>> \o Split(SubSeq(s, e + 2, Len(s)))

Documents(L, n) == {JoinLines(ls) : ls \in UNION {[1..k -> L] : k \in 1..n}}

\* a '#' run, a gap of spaces/tabs and a tail, alone or among other lines
HeaderLines ==
  {Repeat("#", k) \o w \o t :
     k \in 0..MaxHashes, w \in Strs(HSpace, MaxGap), t \in Strs({"a", " ", "#"}, MaxTail)}

HeaderCorpora ==
  {b \o l \o a :
     b \in {<<>>, <<"a", NL>>, <<"#", " ", "a", NL>>},
     l \in HeaderLines,
     a \in {<<>>, <<NL, "#", "#", " ", "a">>}}

ParagraphCorpora == Strs({"a", " ", "\t", NL, "\r"}, MaxParaLen)

PlainCorpora == Strs({"a", "1", ".", " ", NL}, MaxPlainLen)

EmphasisCorpora ==
  {Repeat("*", i) \o x \o Repeat("*", j) :
     i \in 0..MaxStars, j \in 0..MaxStars, x \in Strs({"a", " ", "*"}, MaxInner)}

ListLines ==
  { <<>>, <<"x">>,
    <<"-", " ", "a">>, <<"+", " ", "b">>, <<"*", " ", "c">>,
    <<"1", ".", " ", "a">>, <<"2", "3", ".", " ", "b">>,
    <<"x", " ", "-", " ", "b">>,
    <<"-", " ", "a", " ", "1", ".", " ", "b">>,
    <<"1", ".", " ", "a", " ", "-", " ", "b">> }

ListCorpora == Documents(ListLines, MaxListLines)

StageLines ==
  { <<>>, <<" ">>, <<"\r">>, <<"a">>,
    <<"#", " ", "a">>,
    <<"*", "*", "*", "a", "*", "*", "*">>,
    <<"-", " ", "a">>, <<"+", " ", "a">>,
    <<"1", ".", " ", "a">>,
    <<"x", " ", "*", " ", "a">> }

StageCorpora == Documents(StageLines, MaxStageLines)

(***************************************************************************)
(* The calls.  entry is the function called, pc the call that runs next:   *)
(* html evaluates headers, bold, italics, lists and paragraphs in that     *)
(* order and then wraps the result in the article tag.                     *)
(***************************************************************************)
Start(e, C) ==
  /\ entry = e
  /\ corpus \in C
  /\ text = corpus
  /\ pc = IF e = "html" THEN "headers" ELSE e
  /\ ul_wrapped = <<>>
  /\ ul_finished = <<>>
  /\ ol_wrapped = <<>>

After(next) == IF entry = "html" THEN next ELSE "done"

HeadersCall ==
  /\ pc = "headers"
  /\ text' = headers(text)
  /\ pc' = After("bold")
  /\ UNCHANGED <<entry, corpus, ul_wrapped, ul_finished, ol_wrapped>>

BoldCall ==
  /\ pc = "bold"
  /\ text' = bold(text)
  /\ pc' = After("italics")
  /\ UNCHANGED <<entry, corpus, ul_wrapped, ul_finished, ol_wrapped>>

ItalicsCall ==
  /\ pc = "italics"
  /\ text' = italics(text)
  /\ pc' = After("lists")
  /\ UNCHANGED <<entry, corpus, ul_wrapped, ul_finished, ol_wrapped>>

ListsCall ==
  /\ pc = "lists"
  /\ ul_wrapped' = UlWrapped(text)
  /\ ul_finished' = UlFinished(text)
  /\ ol_wrapped' = OlWrapped(text)
  /\ text' = lists(text)
  /\ pc' = After("paragraphs")
  /\ UNCHANGED <<entry, corpus>>

ParagraphsCall ==
  /\ pc = "paragraphs"
  /\ text' = paragraphs(text)
  /\ pc' = After("article")
  /\ UNCHANGED <<entry, corpus, ul_wrapped, ul_finished, ol_wrapped>>

ArticleWrap ==
  /\ pc = "article"
  /\ text' = ArticleOpen \o text \o ArticleClose
  /\ pc' = "done"
  /\ UNCHANGED <<entry, corpus, ul_wrapped, ul_finished, ol_wrapped>>

Next ==
  \/ HeadersCall
  \/ BoldCall
  \/ ItalicsCall
  \/ ListsCall
  \/ ParagraphsCall
  \/ ArticleWrap

\* any of the four rewriters alone on a document, or html on it
Init ==
  \E e \in {"headers", "bold", "italics", "lists", "html"} : Start(e, StageCorpora)

Spec == Init /\ [][Next]_vars

\* headers alone
InitHeaders == Start("headers", HeaderCorpora)

SpecHeaders == InitHeaders /\ [][HeadersCall]_vars

\* lists alone
InitLists == Start("lists", ListCorpora)

SpecLists == InitLists /\ [][ListsCall]_vars

\* paragraphs alone
InitParagraphs == Start("paragraphs", ParagraphCorpora)

SpecParagraphs == InitParagraphs /\ [][ParagraphsCall]_vars

\* html on text without emphasis, header or bullet characters
InitPlain == Start("html", PlainCorpora)

SpecPlain == InitPlain /\ [][Next]_vars

\* html on asterisk-wrapped text
InitEmphasis == Start("html", EmphasisCorpora)

SpecEmphasis == InitEmphasis /\ [][Next]_vars

(***************************************************************************)
(* Vocabulary of the properties: lines, list items, blank separators.      *)
(***************************************************************************)
InLines == Split(corpus)

OutLines == Split(text)

\* length of the run of '#' a line starts with
HashRun(l) == RunEnd(l, 1, {"#"})

\* number of spaces/tabs right after that run
GapRun(l) == RunEnd(l, HashRun(l) + 1, HSpace) - HashRun(l)

\* what follows the hashes and the gap
HeadingText(l) == SubSeq(l, HashRun(l) + GapRun(l) + 1, Len(l))

\* a heading line: 1 to 6 hashes, a gap, then text
IsHeading(l) == HashRun(l) \in 1..6 /\ GapRun(l) >= 1 /\ HeadingText(l) # <<>>

\* a line made of a bullet marker, a space and content
IsUlLine(l) == Len(l) >= 2 /\ l[1] \in {"-", "+", "*"} /\ l[2] = " "

\* a line made of digits, '.', a space and content
IsOlLine(l) ==
  RunEnd(l, 1, Digit) >= 1 /\ StartsWith(l, RunEnd(l, 1, Digit) + 1, <<".", " ">>)

ItemContent(l) ==
  IF IsUlLine(l) THEN SubSeq(l, 3, Len(l)) ELSE SubSeq(l, RunEnd(l, 1, Digit) + 3, Len(l))

Item(l) == LiOpen \o ItemContent(l) \o LiClose

\* s[i..j] holds only newlines and characters of B
BlankRun(s, i, j, B) == \A k \in i..j : s[k] = NL \/ s[k] \in B

\* first newline of each maximal blank separator, blank lines being made of B
SepStarts(s, B) ==
  {f \in 1..Len(s) :
     /\ s[f] = NL
     /\ \E l \in (f + 1)..Len(s) : s[l] = NL /\ BlankRun(s, f, l, B)
     /\ ~ \E g \in 1..(f - 1) : s[g] = NL /\ BlankRun(s, g, f, B)}

\* last newline of the maximal separator that starts at f
SepEnd(s, f, B) == Max({l \in (f + 1)..Len(s) : s[l] = NL /\ BlankRun(s, f, l, B)})

\* s with every maximal separator replaced by one paragraph boundary
RECURSIVE Separated(_, _, _)
Separated(s, p, B) ==
  IF p > Len(s) THEN <<>>
  ELSE IF p \in SepStarts(s, B)
       THEN ParaBoundary \o Separated(s, SepEnd(s, p, B) + 1, B)
       ELSE <<s[p]>> \o Separated(s, p + 1, B)

\* number of paragraphs of an output
CountP(t) == Cardinality({i \in 1..Len(t) : StartsWith(t, i, POpen)})

\* indexes of the whitespace-only lines
BlankLines(s) ==
  LET ls == Split(s)
  IN {j \in 1..Len(ls) : \A k \in 1..Len(ls[j]) : ls[j][k] \in Space}

SameLineStructure(a, b) ==
  Len(Split(a)) = Len(Split(b)) /\ BlankLines(a) = BlankLines(b)

\* the merge as the text describes it: newline, then the captured group
RECURSIVE MergeKeepingGroup(_, _, _, _)
MergeKeepingGroup(s, p, close, open) ==
  IF p > Len(s) THEN <<>>
  ELSE LET m == MatchMerge(s, p, close, open)
       IN IF m.found
          THEN <<NL>> \o m.group \o MergeKeepingGroup(s, m.end + 1, close, open)
          ELSE <<s[p]>> \o MergeKeepingGroup(s, p + 1, close, open)

(***************************************************************************)
(* Properties                                                              *)
(***************************************************************************)

PlainText(s) ==
  /\ \A i \in 1..Len(s) : s[i] \notin {"#", "*", "-", "+"}
  /\ \A j \in 1..Len(Split(s)) : ~ IsOlLine(Split(s)[j])
  /\ SepStarts(s, Space \ {NL}) = {}

\* C1: html of a string without '#', '*', '-', '+', without a line starting
\* with digits, '.' and a space, and without a blank-line run is the string
\* inside <article><p> ... </p></article>.
C1_PlainPassesThrough ==
  (pc = "done" /\ PlainText(corpus))
    => text = ArticleOpen \o POpen \o corpus \o PClose \o ArticleClose

\* C2: headers maps every line by the exact length k of its leading '#' run:
\* 1 <= k <= 6 with a gap and text gives <hk>text</hk>; k >= 7, or a '#' run
\* with no space/tab after it, leaves the line unchanged; on the first line
\* and after a newline alike.
C2_HeaderLevelIsRunLength ==
  pc = "done" =>
    /\ Len(OutLines) = Len(InLines)
    /\ \A j \in 1..Len(InLines) :
         LET l == InLines[j]
         IN /\ IsHeading(l)
                 => OutLines[j] = HOpen(HashRun(l)) \o HeadingText(l) \o HClose(HashRun(l))
            /\ (HashRun(l) >= 7 \/ (HashRun(l) >= 1 /\ GapRun(l) = 0))
                 => OutLines[j] = l

\* C2 witness: a heading after a newline was rewritten next to a run of
\* seven hashes with a gap and text
C2_Witness ==
  /\ pc = "done"
  /\ \E i, j \in 1..Len(InLines) :
       /\ j >= 2
       /\ IsHeading(InLines[j])
       /\ HashRun(InLines[i]) >= 7
       /\ GapRun(InLines[i]) >= 1
       /\ HeadingText(InLines[i]) # <<>>

\* C3: N consecutive bullet lines become exactly one <ul> of N items in
\* input order separated by single newlines; likewise <ol> for N lines of
\* digits + '.' + space + content.
C3_RunBecomesOneList ==
  pc = "done" =>
    /\ (\A j \in 1..Len(InLines) : IsUlLine(InLines[j]))
         => text = UlOpen \o JoinLines([j \in 1..Len(InLines) |-> Item(InLines[j])])
                          \o UlClose
    /\ (\A j \in 1..Len(InLines) : IsOlLine(InLines[j]))
         => text = OlOpen \o JoinLines([j \in 1..Len(InLines) |-> Item(InLines[j])])
                          \o OlClose

\* C4: paragraphs turns every maximal blank separator (a newline, any number
\* of lines of spaces/tabs, a newline) into one boundary and wraps the buffer
\* in <p>...</p>, so k separators give k + 1 paragraphs.
C4_BlankIsSpaceOrTab ==
  pc = "done" =>
    /\ text = POpen \o Separated(corpus, 1, HSpace) \o PClose
    /\ CountP(text) = Cardinality(SepStarts(corpus, HSpace)) + 1

\* C4 amended: the same, a blank line being one that holds only whitespace
\* characters (space, tab, carriage return, form feed, ...).
C4_BlankIsWhitespace ==
  pc = "done" =>
    /\ text = POpen \o Separated(corpus, 1, Space \ {NL}) \o PClose
    /\ CountP(text) = Cardinality(SepStarts(corpus, Space \ {NL})) + 1

\* C4 witness: two separators, one of them spanning more than one blank line
C4_Witness ==
  /\ pc = "done"
  /\ Cardinality(SepStarts(corpus, Space \ {NL})) = 2
  /\ \E f \in SepStarts(corpus, Space \ {NL}) : SepEnd(corpus, f, Space \ {NL}) > f + 1

TripleInner == SubSeq(corpus, 4, Len(corpus) - 3)

IsTriple ==
  /\ Len(corpus) >= 7
  /\ StartsWith(corpus, 1, <<"*", "*", "*">>)
  /\ StartsWith(corpus, Len(corpus) - 2, <<"*", "*", "*">>)
  /\ \A k \in 1..Len(TripleInner) : TripleInner[k] \in {"a", " "}

IsPlainLine(l) == ~ IsUlLine(l) /\ ~ IsOlLine(l)

EndsWith(s, lit) == StartsWith(s, Len(s) - Len(lit) + 1, lit)

\* C6: lists leaves every non-list line untouched, and such a line between
\* two list items keeps them in separate lists.
C6_NonListLinesUntouched ==
  pc = "done" =>
    /\ Len(OutLines) = Len(InLines)
    /\ \A j \in 1..Len(InLines) :
         IsPlainLine(InLines[j]) =>
           /\ OutLines[j] = InLines[j]
           /\ (j > 1 /\ IsUlLine(InLines[j - 1])) => EndsWith(OutLines[j - 1], UlClose)
           /\ (j > 1 /\ IsOlLine(InLines[j - 1])) => EndsWith(OutLines[j - 1], OlClose)
           /\ (j < Len(InLines) /\ IsUlLine(InLines[j + 1]))
                => StartsWith(OutLines[j + 1], 1, UlOpen)
           /\ (j < Len(InLines) /\ IsOlLine(InLines[j + 1]))
                => StartsWith(OutLines[j + 1], 1, OlOpen)

\* C7: the content between <hN> and </hN> of a rewritten line never begins
\* with a space or a tab.
C7_GapConsumed ==
  pc = "done" =>
    \A j \in 1..Len(InLines) :
      (j <= Len(OutLines) /\ OutLines[j] # InLines[j])
        => SubSeq(OutLines[j], 5, 5)[1] \notin HSpace

\* C8: each merge removes only the closing/opening tag pair: the result is
\* the newline followed by the captured text.
C8_MergeKeepsCapturedText ==
  pc = "done" =>
    /\ ul_finished = MergeKeepingGroup(ul_wrapped, 1, UlClose, UlOpen)
    /\ text = MergeKeepingGroup(ol_wrapped, 1, OlClose, OlOpen)

OwnList(l) ==
  IF IsUlLine(l) THEN UlOpen \o Item(l) \o UlClose ELSE OlOpen \o Item(l) \o OlClose

Alternating(ls) ==
  /\ Len(ls) >= 2
  /\ \A j \in 1..Len(ls) : IsUlLine(ls[j]) \/ IsOlLine(ls[j])
  /\ \A j \in 1..(Len(ls) - 1) : IsUlLine(ls[j]) # IsUlLine(ls[j + 1])

\* C9: in a sequence of alternating unordered and ordered item lines every
\* line becomes a complete list of its own kind on its own line.
C9_MixedRunNotMerged ==
  (pc = "done" /\ Alternating(InLines))
    => text = JoinLines([j \in 1..Len(InLines) |-> OwnList(InLines[j])])

\* C10: headers, bold, italics and lists, alone or composed in pipeline
\* order, keep the number of newlines and the set of blank lines, so html(s)
\* has one paragraph more than s has blank separators.
C10_StagesKeepLineStructure ==
  /\ (entry # "html" /\ pc = "done") => SameLineStructure(text, corpus)
  /\ (entry = "html" /\ pc \in {"bold", "italics", "lists", "paragraphs"})
       => SameLineStructure(text, corpus)
  /\ (entry = "html" /\ pc = "done")
       => CountP(text) = Cardinality(SepStarts(corpus, Space \ {NL})) + 1

\* C10 witness: html rewrote a document that holds a blank separator and list items
C10_Witness ==
  /\ entry = "html"
  /\ pc = "done"
  /\ SepStarts(corpus, Space \ {NL}) # {}
  /\ \E j \in 1..Len(InLines) : IsUlLine(InLines[j])
  /\ CountP(text) = 2

====
